---- MODULE Spec2Model ----
(***************************************************************************)
(* Model of the three snapshot update scripts of competidex-data:          *)
(*   scripts/update_ability_map.js, scripts/update_moves_es_map.js,        *)
(*   scripts/update_pokemon_map.js.                                        *)
(* One behaviour follows one resource directory (manifest.json plus the    *)
(* dated map files) through one run of its script (Spec, and SpecFair for  *)
(* a run that is not killed and whose requests are all answered), or       *)
(* through two runs in succession (SpecTwice), or through the runs of two  *)
(* processes that overlap (SpecOverlap).                                   *)
(* A run is cut at its awaits and at its file system calls, so a kill of   *)
(* the process can fall between any two of them.                           *)
(***************************************************************************)
EXTENDS Integers, Sequences, FiniteSets, TLC

(* ------------------------------ bounds --------------------------------- *)
MaxDay == 2
MaxList == 2
MaxPool == 2

(* ----------------------------- universes ------------------------------- *)
ResourceTypes == {"ability", "moves", "pokemon"}
Names == {"a", "b"}
\* results[i].name of a listing entry that has no usable name (null, "", entry null)
NoName == ""
\* records: OldVal stands for what a snapshot that was on disk before the
\* first run holds for a key, NewVal for what the extraction of a detail
\* response of these runs gives
OldVal == "old"
NewVal == "new"
Days == 1..MaxDay
Workers == 1..MaxPool
PoolSizes == 0..MaxPool

EmptyMap == [k \in {} |-> 0]
MapsOver(V) == UNION {[K -> V] : K \in SUBSET Names}

RECURSIVE SeqsUpTo(_, _)
SeqsUpTo(S, n) ==
    IF n = 0 THEN {<<>>}
    ELSE LET shorter == SeqsUpTo(S, n - 1)
         IN shorter \cup {Append(s, x) : s \in {t \in shorter : Len(t) = n - 1}, x \in S}

\* the results of the listing: each entry has a name or none
Listings == SeqsUpTo(Names \cup {NoName}, MaxList)

\* the count field of a list response: a finite number, absent, or a number
\* that is not finite. A count is only compared with the number of known
\* keys, so the counts above the number of names all act as the first one.
CountFields ==
    {[kind |-> "number", val |-> n] : n \in 0..(Cardinality(Names) + 1)}
        \cup {[kind |-> "missing", val |-> 0], [kind |-> "nonfinite", val |-> 0]}

\* Math.min
Min(x, y) == IF x <= y THEN x ELSE y

(* --------------------------- names and paths --------------------------- *)
\* the directory under public/ and the file name prefix of each script
DirOf(r) ==
    CASE r = "ability" -> "abilities"
      [] r = "moves" -> "moves"
      [] r = "pokemon" -> "pokemon"

PrefixOf(r) ==
    CASE r = "ability" -> "ability_map"
      [] r = "moves" -> "move_es_map"
      [] r = "pokemon" -> "pokemon_map"

\* `${prefix}.${version}.json`
FileNameOf(r, v) == [prefix |-> PrefixOf(r), version |-> v]
\* oldFileName = null
NoFileName == [prefix |-> "", version |-> 0]
\* `/${dir}/${newFileName}`: the path as its non-empty segments
UrlOf(r, f) == <<DirOf(r), f>>
\* manifest.<res>_url null or absent
NullUrl == <<>>
\* url.split("/").filter(Boolean).pop()
LastSegment(url) == IF Len(url) = 0 THEN NoFileName ELSE url[Len(url)]

FileNames(r) == {FileNameOf(r, d) : d \in Days}
AbsentFile == [present |-> FALSE, data |-> EmptyMap]
FileWith(m) == [present |-> TRUE, data |-> m]
NoManifest == [exists |-> FALSE, version |-> 0, url |-> NullUrl]
ManifestWith(v, u) == [exists |-> TRUE, version |-> v, url |-> u]

(* ------------------------------- state --------------------------------- *)
\* environment: rt the script that is run on this directory, today the UTC
\*   date that todayISO() last returned (the date of the latest publish),
\*   remoteCount / remoteList the count field and the results of the remote
\*   listing, any catalog, the same for every run of a behaviour
\* files: manifest is manifest.json, disk the dated map files by name
\* the run: pc its position, exit its status (-1 while none), runs the
\*   number of runs started; memManifest, oldFileName, map, knownKeys,
\*   apiCount, missing, version, newFileName the locals of main; poolSize
\*   POOL; p the next index of withPool (items taken so far), wk the state
\*   of each worker of the pool; added, failed the counters
\* history: startManifest, startDisk the files when the run started;
\*   nProbe, nList, nDetail the requests the run has issued; fsOps the file
\*   operations of the run in order; outcome the fate of each scheduled
\*   fetch (all of these are of the run while its process lives); lastRun
\*   how the latest run ended, prevRun how the run before the current one
\*   ended, prevFailed the names whose fetch failed in that run;
\*   fatalCause what made the run throw
\* a second process that runs the same script on the same directory while
\*   the first one runs (SpecOverlap only): pc2 its position, memManifest2,
\*   oldFileName2, map2, newFileName2 its locals of main, fsOps2 its file
\*   operations in order
VARIABLES rt, today, remoteCount, remoteList,
          manifest, disk,
          pc, exit, runs, memManifest, oldFileName, map, knownKeys, apiCount,
          missing, poolSize, p, wk, added, failed, version, newFileName,
          startManifest, startDisk, nProbe, nList, nDetail, fsOps, outcome,
          lastRun, prevRun, prevFailed, fatalCause,
          pc2, memManifest2, oldFileName2, map2, newFileName2, fsOps2

envVars == <<rt, today, remoteCount, remoteList>>
storeVars == <<manifest, disk>>
runVars == <<pc, exit, runs, memManifest, oldFileName, map, knownKeys, apiCount,
             missing, poolSize, p, wk, added, failed, version, newFileName>>
ghostVars == <<startManifest, startDisk, nProbe, nList, nDetail, fsOps, outcome,
               lastRun, prevRun, prevFailed, fatalCause>>
otherVars == <<pc2, memManifest2, oldFileName2, map2, newFileName2, fsOps2>>
vars == <<envVars, storeVars, runVars, ghostVars, otherVars>>

\* todayISO() is the UTC date of the clock, a day number: the clock never
\* runs backwards, so a call returns a date from the last one returned on
todayISO == {d \in Days : d >= today}

\* getCountFromListResponse: the count when it is a finite number, else null
UnknownCount == [known |-> FALSE, val |-> 0]
getCountOrZero(c) ==
    IF c.kind = "number" THEN [known |-> TRUE, val |-> c.val] ELSE [known |-> TRUE, val |-> 0]

getCountFromListResponse(c) ==
    IF c.kind = "number" THEN [known |-> TRUE, val |-> c.val] ELSE UnknownCount

\* isBootstrap of the ability and pokemon scripts; the moves script has no
\* bootstrap and tests the count alone
isBootstrap(r, localCount) == r # "moves" /\ localCount = 0

\* the early return after the probe
CountNotGrownStrict(r, cnt, localCount) ==
    ~isBootstrap(r, localCount) /\ cnt.known /\ cnt.val < localCount

CountNotGrown(r, cnt, localCount) ==
    ~isBootstrap(r, localCount) /\ cnt.known /\ cnt.val <= localCount

\* the loop that collects the names of the listing that are not known
RECURSIVE MissingFrom(_, _, _)
MissingFrom(results, known, i) ==
    IF i > Len(results) THEN <<>>
    ELSE LET name == results[i]
             rest == MissingFrom(results, known, i + 1)
         IN IF name # NoName /\ name \notin known THEN <<name>> \o rest ELSE rest

MissingKeepsNameless(results, known) == SelectSeq(results, LAMBDA x : x \notin known)

MissingUnfiltered(results, known) == MissingFrom(results, {}, 1)

Missing(results, known) == MissingFrom(results, known, 1)

\* map[name] = record
MapPutOnly(m, k, v) == [x \in {k} |-> v]

MapPut(m, k, v) == [x \in (DOMAIN m) \cup {k} |-> IF x = k THEN v ELSE m[x]]

\* withPool: n = Math.min(poolSize, items.length) workers are started
PoolWidthUncapped(size, len) == size

PoolWidth(size, len) == Min(size, len)

\* step 6: the test that guards safeUnlink(oldMapPath)
ShouldRetireAlways(old, new) == old # NoFileName

ShouldRetireNever(old, new) == FALSE

ShouldRetire(old, new) == old # NoFileName /\ old # new

\* step 5: manifest.version = version; manifest.<res>_url = `/<dir>/${newFileName}`
NewManifestVersionOnly(mem, r, v, f) == [mem EXCEPT !.version = v]

NewManifestUrlOnly(mem, r, v, f) == [mem EXCEPT !.url = UrlOf(r, f)]

NewManifest(mem, r, v, f) == [mem EXCEPT !.version = v, !.url = UrlOf(r, f)]

\* the exit status: main().catch calls process.exit(1), a return of main
\* lets the process end with status 0
ExitCodeZero(threw) == 0

ExitCodeOne(threw) == 1

ExitCode(threw) == IF threw THEN 1 ELSE 0

IdleWorkers == [w \in Workers |-> [st |-> "off", idx |-> 0]]
NoOutcome == [i \in 1..MaxList |-> "none"]

\* main, up to the first await: the manifest and the snapshot it points at.
\* The moves script stops with an error where the other two bootstrap.
LoadStateNoRead(r, mf, dk) ==
    LET old == LastSegment(mf.url)
    IN IF ~mf.exists \/ (r = "moves" /\ (old = NoFileName \/ ~dk[old].present))
       THEN [fatal |-> TRUE, old |-> NoFileName, map |-> EmptyMap]
       ELSE [fatal |-> FALSE, old |-> old, map |-> EmptyMap]

LoadState(r, mf, dk) ==
    LET old == LastSegment(mf.url)
        found == old # NoFileName /\ dk[old].present
    IN IF ~mf.exists THEN [fatal |-> TRUE, old |-> NoFileName, map |-> EmptyMap]
       ELSE IF r = "moves"
            THEN IF mf.url = NullUrl \/ old = NoFileName \/ ~found
                 THEN [fatal |-> TRUE, old |-> NoFileName, map |-> EmptyMap]
                 ELSE [fatal |-> FALSE, old |-> old, map |-> dk[old].data]
            ELSE IF mf.url = NullUrl
                 THEN [fatal |-> FALSE, old |-> NoFileName, map |-> EmptyMap]
                 ELSE [fatal |-> FALSE, old |-> old,
                       map |-> IF found THEN dk[old].data ELSE EmptyMap]

\* how a run that returned from main is classed for the next run: "clean"
\* when every name it found missing was fetched, "partial" when a fetch
\* failed, "none" otherwise (as for a run that threw or was killed)
RunKind(miss, out) ==
    IF \A i \in 1..Len(miss) : out[i] = "ok" THEN "clean"
    ELSE IF \E i \in 1..Len(miss) : out[i] = "fail" THEN "partial"
    ELSE "none"

\* the names whose detail request ended in the catch of the worker function
FailedKeys(miss, out) == {miss[i] : i \in {j \in 1..Len(miss) : out[j] = "fail"}}

\* the map after the pool: m with the record of every item of miss whose
\* index is in ok
RECURSIVE MergeFetched(_, _, _, _)
MergeFetched(m, miss, ok, i) ==
    IF i > Len(miss) THEN m
    ELSE MergeFetched(IF i \in ok THEN MapPut(m, miss[i], NewVal) ELSE m, miss, ok, i + 1)

(* ------------------------------- Init ---------------------------------- *)
\* the directory before the first modelled run: no manifest at all, a
\* manifest without pointer, a manifest whose pointer names a missing file,
\* or a manifest that points at a snapshot published on day 1
InitStores(r) ==
    {[m |-> NoManifest, f |-> AbsentFile],
     [m |-> ManifestWith(0, NullUrl), f |-> AbsentFile],
     [m |-> ManifestWith(1, UrlOf(r, FileNameOf(r, 1))), f |-> AbsentFile]}
    \cup {[m |-> ManifestWith(1, UrlOf(r, FileNameOf(r, 1))), f |-> FileWith(s)] :
             s \in MapsOver({OldVal})}

Init ==
    /\ rt \in ResourceTypes
    /\ today = 1
    /\ remoteCount \in CountFields
    /\ remoteList \in Listings
    /\ \E st \in InitStores(rt) :
          /\ manifest = st.m
          /\ disk = [f \in FileNames(rt) |-> IF f = FileNameOf(rt, 1) THEN st.f ELSE AbsentFile]
    /\ pc = "idle"
    /\ exit = -1
    /\ runs = 0
    /\ memManifest = NoManifest
    /\ oldFileName = NoFileName
    /\ map = EmptyMap
    /\ knownKeys = {}
    /\ apiCount = UnknownCount
    /\ missing = <<>>
    /\ poolSize = 0
    /\ p = 0
    /\ wk = IdleWorkers
    /\ added = 0
    /\ failed = 0
    /\ version = 0
    /\ newFileName = NoFileName
    /\ startManifest = NoManifest
    /\ startDisk = disk
    /\ nProbe = 0
    /\ nList = 0
    /\ nDetail = 0
    /\ fsOps = <<>>
    /\ outcome = NoOutcome
    /\ lastRun = "none"
    /\ prevRun = "none"
    /\ prevFailed = {}
    /\ fatalCause = "none"
    /\ pc2 = "idle"
    /\ memManifest2 = NoManifest
    /\ oldFileName2 = NoFileName
    /\ map2 = EmptyMap
    /\ newFileName2 = NoFileName
    /\ fsOps2 = <<>>

(* ------------------------------ actions -------------------------------- *)
Stopped == pc \in {"idle", "exited", "crashed"}

\* main from its first line to the probe request; a missing manifest (or,
\* for moves, a missing pointer or file) throws and main().catch exits with
\* status 1
EnterMain ==
    /\ runs' = runs + 1
    /\ prevRun' = lastRun
    /\ prevFailed' = FailedKeys(missing, outcome)
    /\ LET ld == LoadState(rt, manifest, disk)
       IN /\ memManifest' = manifest
          /\ oldFileName' = ld.old
          /\ map' = ld.map
          /\ knownKeys' = DOMAIN ld.map
          /\ IF ld.fatal
             THEN /\ pc' = "exited" /\ exit' = ExitCode(TRUE) /\ nProbe' = 0
                  /\ lastRun' = "none"
                  /\ fatalCause' = IF manifest.exists THEN "pointer" ELSE "manifest"
             ELSE /\ pc' = "probe" /\ exit' = -1 /\ nProbe' = 1
                  /\ lastRun' = "none"
                  /\ fatalCause' = "none"
    /\ apiCount' = UnknownCount
    /\ missing' = <<>>
    /\ poolSize' = 0
    /\ p' = 0
    /\ wk' = IdleWorkers
    /\ added' = 0
    /\ failed' = 0
    /\ version' = 0
    /\ newFileName' = NoFileName
    /\ startManifest' = manifest
    /\ startDisk' = disk
    /\ nList' = 0
    /\ nDetail' = 0
    /\ fsOps' = <<>>
    /\ outcome' = NoOutcome
    /\ UNCHANGED <<envVars, storeVars, otherVars>>

\* node scripts/update_<res>_map.js on the directory as it was found
StartRun ==
    /\ pc = "idle"
    /\ EnterMain

\* the script is run once more after a run that returned from main
RunAgain ==
    /\ pc = "exited"
    /\ exit = ExitCode(FALSE)
    /\ runs = 1
    /\ EnterMain

\* the answer to GET /<res>?limit=1: an HTTP error is fatal; otherwise the
\* count decides between the early return and the listing request
ProbeReturn ==
    /\ pc = "probe"
    /\ \E ok \in BOOLEAN :
          IF ~ok
          THEN /\ pc' = "exited" /\ exit' = ExitCode(TRUE) /\ lastRun' = "none"
               /\ fatalCause' = "probe"
               /\ UNCHANGED <<apiCount, nList>>
          ELSE LET cnt == getCountFromListResponse(remoteCount)
               IN /\ apiCount' = cnt
                  /\ IF CountNotGrown(rt, cnt, Cardinality(knownKeys))
                     THEN /\ pc' = "exited" /\ exit' = ExitCode(FALSE)
                          /\ lastRun' = RunKind(missing, outcome)
                          /\ UNCHANGED nList
                     ELSE /\ pc' = "list" /\ nList' = nList + 1
                          /\ UNCHANGED <<exit, lastRun>>
                  /\ UNCHANGED fatalCause
    /\ UNCHANGED <<envVars, storeVars, runs, memManifest, oldFileName, map, knownKeys,
                   missing, poolSize, p, wk, added, failed, version, newFileName,
                   startManifest, startDisk, nProbe, nDetail, fsOps, outcome, prevRun, prevFailed, otherVars>>

\* the answer to GET /<res>?limit=100000: an HTTP error is fatal; otherwise
\* the diff, the early return on an empty diff, and the start of withPool,
\* whose n workers each take an item and issue its detail request
ListReturn ==
    /\ pc = "list"
    /\ \E ok \in BOOLEAN :
          IF ~ok
          THEN /\ pc' = "exited" /\ exit' = ExitCode(TRUE) /\ lastRun' = "none"
               /\ fatalCause' = "list"
               /\ UNCHANGED <<missing, poolSize, p, wk, nDetail>>
          ELSE LET miss == Missing(remoteList, knownKeys)
               IN /\ missing' = miss
                  /\ UNCHANGED fatalCause
                  /\ IF Len(miss) = 0
                     THEN /\ pc' = "exited" /\ exit' = ExitCode(FALSE)
                          /\ lastRun' = RunKind(miss, outcome)
                          /\ UNCHANGED <<poolSize, p, wk, nDetail>>
                     ELSE \E size \in PoolSizes :
                            LET n == PoolWidth(size, Len(miss))
                            IN /\ poolSize' = size
                               /\ wk' = [w \in Workers |->
                                           IF w <= n THEN [st |-> "fetching", idx |-> w]
                                                     ELSE [st |-> "off", idx |-> 0]]
                               /\ p' = n
                               /\ nDetail' = n
                               /\ pc' = "pool"
                               /\ UNCHANGED <<exit, lastRun>>
    /\ UNCHANGED <<envVars, storeVars, runs, memManifest, oldFileName, map, knownKeys,
                   apiCount, added, failed, version, newFileName,
                   startManifest, startDisk, nProbe, nList, fsOps, outcome, prevRun, prevFailed, otherVars>>

\* the answer to GET /<res>/<name> of worker w: the record is put in the map
\* and added counted, or the error is caught (the moves script has no
\* failed counter)
DetailReturn(w) ==
    /\ pc = "pool"
    /\ wk[w].st = "fetching"
    /\ LET idx == wk[w].idx
           name == missing[idx]
       IN \/ /\ map' = MapPut(map, name, NewVal)
             /\ added' = added + 1
             /\ outcome' = [outcome EXCEPT ![idx] = "ok"]
             /\ UNCHANGED failed
          \/ /\ failed' = IF rt = "moves" THEN failed ELSE failed + 1
             /\ outcome' = [outcome EXCEPT ![idx] = "fail"]
             /\ UNCHANGED <<map, added>>
    /\ wk' = [wk EXCEPT ![w] = [st |-> "loop", idx |-> 0]]
    /\ UNCHANGED <<envVars, storeVars, pc, exit, runs, memManifest, oldFileName, knownKeys,
                   apiCount, missing, poolSize, p, version, newFileName,
                   startManifest, startDisk, nProbe, nList, nDetail, fsOps,
                   lastRun, prevRun, prevFailed, otherVars, fatalCause>>

\* worker w back at the head of its loop: while (p < items.length) idx = p++
WorkerLoop(w) ==
    /\ pc = "pool"
    /\ wk[w].st = "loop"
    /\ IF p < Len(missing)
       THEN /\ p' = p + 1
            /\ wk' = [wk EXCEPT ![w] = [st |-> "fetching", idx |-> p + 1]]
            /\ nDetail' = nDetail + 1
       ELSE /\ wk' = [wk EXCEPT ![w] = [st |-> "done", idx |-> 0]]
            /\ UNCHANGED <<p, nDetail>>
    /\ UNCHANGED <<envVars, storeVars, pc, exit, runs, memManifest, oldFileName, map,
                   knownKeys, apiCount, missing, poolSize, added, failed, version,
                   newFileName, startManifest, startDisk, nProbe, nList, fsOps,
                   outcome, lastRun, prevRun, prevFailed, otherVars, fatalCause>>

\* Promise.all has resolved (the workers are gone): step 4, the new dated
\* file is written
WriteSnapshot ==
    /\ pc = "pool"
    /\ \A w \in Workers : wk[w].st \in {"off", "done"}
    /\ \E d \in todayISO :
          /\ today' = d
          /\ version' = d
          /\ newFileName' = FileNameOf(rt, d)
          /\ disk' = [disk EXCEPT ![FileNameOf(rt, d)] = FileWith(map)]
    /\ fsOps' = Append(fsOps, "writeMap")
    /\ pc' = "manifest"
    /\ wk' = IdleWorkers
    /\ UNCHANGED <<rt, remoteCount, remoteList, manifest, exit, runs, memManifest,
                   oldFileName, map, knownKeys, apiCount, missing, poolSize, p, added, failed,
                   startManifest, startDisk, nProbe, nList, nDetail, outcome,
                   lastRun, prevRun, prevFailed, otherVars, fatalCause>>

\* step 5, the manifest is pointed at the new file
WriteManifest ==
    /\ pc = "manifest"
    /\ memManifest' = NewManifest(memManifest, rt, version, newFileName)
    /\ manifest' = memManifest'
    /\ fsOps' = Append(fsOps, "writeManifest")
    /\ pc' = "retire"
    /\ UNCHANGED <<envVars, disk, exit, runs, oldFileName, map, knownKeys,
                   apiCount, missing, poolSize, p, wk, added, failed, version, newFileName,
                   startManifest, startDisk, nProbe, nList, nDetail, outcome,
                   lastRun, prevRun, prevFailed, otherVars, fatalCause>>

\* step 6, safeUnlink of the old file when its name differs, then main
\* returns; unlinkSync may throw, which safeUnlink catches
Retire ==
    /\ pc = "retire"
    /\ IF ShouldRetire(oldFileName, newFileName) /\ disk[oldFileName].present
       THEN \/ /\ disk' = [disk EXCEPT ![oldFileName] = AbsentFile]
               /\ fsOps' = Append(fsOps, "unlink")
            \/ /\ fsOps' = Append(fsOps, "unlinkFailed")
               /\ UNCHANGED disk
       ELSE UNCHANGED <<disk, fsOps>>
    /\ pc' = "exited"
    /\ exit' = ExitCode(FALSE)
    /\ lastRun' = RunKind(missing, outcome)
    /\ UNCHANGED <<envVars, manifest, runs, memManifest, oldFileName, map, knownKeys,
                   apiCount, missing, poolSize, p, wk, added, failed, version, newFileName,
                   startManifest, startDisk, nProbe, nList, nDetail, outcome, prevRun, prevFailed, otherVars, fatalCause>>

\* the process is killed (or the machine stops) between two steps of a run;
\* what it held in memory is gone, the files stay as they are
Crash ==
    /\ ~Stopped
    /\ pc' = "crashed"
    /\ lastRun' = "none"
    /\ memManifest' = NoManifest
    /\ map' = EmptyMap
    /\ knownKeys' = {}
    /\ apiCount' = UnknownCount
    /\ missing' = <<>>
    /\ poolSize' = 0
    /\ p' = 0
    /\ wk' = IdleWorkers
    /\ added' = 0
    /\ failed' = 0
    /\ nProbe' = 0
    /\ nList' = 0
    /\ nDetail' = 0
    /\ outcome' = NoOutcome
    /\ UNCHANGED <<envVars, storeVars, exit, runs, oldFileName, version, newFileName,
                   startManifest, startDisk, fsOps, prevRun, prevFailed, otherVars, fatalCause>>

Next ==
    \/ StartRun
    \/ ProbeReturn
    \/ ListReturn
    \/ \E w \in Workers : DetailReturn(w)
    \/ \E w \in Workers : WorkerLoop(w)
    \/ WriteSnapshot
    \/ WriteManifest
    \/ Retire
    \/ Crash

\* one run of the script
Spec == Init /\ [][Next]_vars

NextTwice ==
    \/ Next
    \/ RunAgain

\* two runs in succession, the second after the first has returned
SpecTwice == Init /\ [][NextTwice]_vars

\* one run of a process that is not killed
NextAlive ==
    \/ StartRun
    \/ ProbeReturn
    \/ ListReturn
    \/ \E w \in Workers : DetailReturn(w)
    \/ \E w \in Workers : WorkerLoop(w)
    \/ WriteSnapshot
    \/ WriteManifest
    \/ Retire

\* every request is answered (with a response or an error), the event loop
\* resumes every worker whose await has settled, and the synchronous code
\* after an await runs on
Fairness ==
    /\ WF_vars(StartRun)
    /\ WF_vars(ProbeReturn)
    /\ WF_vars(ListReturn)
    /\ \A w \in Workers : WF_vars(DetailReturn(w))
    /\ \A w \in Workers : WF_vars(WorkerLoop(w))
    /\ WF_vars(WriteSnapshot)
    /\ WF_vars(WriteManifest)
    /\ WF_vars(Retire)

SpecFair == Init /\ [][NextAlive]_vars /\ Fairness

(* ---------------------- a second, overlapping process ------------------- *)
\* The second process runs the same main. From its start to the end of its
\* pool it reads the manifest and the snapshot once and then touches nothing
\* but its own memory and the network, so these steps are taken as one; its
\* file system calls are one step each, and so is its call of todayISO.

\* main of the second process up to the end of withPool: it throws or
\* returns early without a file operation, or it holds the loaded map plus
\* the records of the fetches that succeeded
OtherLoad ==
    /\ pc2 = "idle"
    /\ LET ld == LoadState(rt, manifest, disk)
           cnt == getCountFromListResponse(remoteCount)
           miss == Missing(remoteList, DOMAIN ld.map)
       IN \/ /\ pc2' = "exited"
             /\ UNCHANGED <<memManifest2, oldFileName2, map2>>
          \/ /\ ~ld.fatal
             /\ ~CountNotGrown(rt, cnt, Cardinality(DOMAIN ld.map))
             /\ Len(miss) > 0
             /\ \E ok \in SUBSET (1..Len(miss)) :
                   map2' = MergeFetched(ld.map, miss, ok, 1)
             /\ memManifest2' = manifest
             /\ oldFileName2' = ld.old
             /\ pc2' = "today"
    /\ UNCHANGED <<envVars, storeVars, runVars, ghostVars, newFileName2, fsOps2>>

\* const version = todayISO(); const newFileName = ...
OtherToday ==
    /\ pc2 = "today"
    /\ \E d \in todayISO :
          /\ today' = d
          /\ newFileName2' = FileNameOf(rt, d)
    /\ pc2' = "write"
    /\ UNCHANGED <<rt, remoteCount, remoteList, storeVars, runVars, ghostVars,
                   memManifest2, oldFileName2, map2, fsOps2>>

\* writeJSON(newMapPath, map)
OtherWriteSnapshot ==
    /\ pc2 = "write"
    /\ disk' = [disk EXCEPT ![newFileName2] = FileWith(map2)]
    /\ fsOps2' = Append(fsOps2, "writeMap")
    /\ pc2' = "manifest"
    /\ UNCHANGED <<envVars, manifest, runVars, ghostVars,
                   memManifest2, oldFileName2, map2, newFileName2>>

\* writeJSON(manifestPath, manifest)
OtherWriteManifest ==
    /\ pc2 = "manifest"
    /\ memManifest2' = NewManifest(memManifest2, rt, newFileName2.version, newFileName2)
    /\ manifest' = memManifest2'
    /\ fsOps2' = Append(fsOps2, "writeManifest")
    /\ pc2' = "retire"
    /\ UNCHANGED <<envVars, disk, runVars, ghostVars, oldFileName2, map2, newFileName2>>

\* safeUnlink(oldMapPath) when the names differ, then main returns
OtherRetire ==
    /\ pc2 = "retire"
    /\ IF ShouldRetire(oldFileName2, newFileName2) /\ disk[oldFileName2].present
       THEN \/ /\ disk' = [disk EXCEPT ![oldFileName2] = AbsentFile]
               /\ fsOps2' = Append(fsOps2, "unlink")
            \/ /\ fsOps2' = Append(fsOps2, "unlinkFailed")
               /\ UNCHANGED disk
       ELSE UNCHANGED <<disk, fsOps2>>
    /\ pc2' = "exited"
    /\ UNCHANGED <<envVars, manifest, runVars, ghostVars,
                   memManifest2, oldFileName2, map2, newFileName2>>

NextOverlap ==
    \/ NextAlive
    \/ OtherLoad
    \/ OtherToday
    \/ OtherWriteSnapshot
    \/ OtherWriteManifest
    \/ OtherRetire

\* the directory holds a manifest that points at a snapshot on disk. The
\* count of the probe only decides whether a process goes on to the listing,
\* and a process that returns at the probe touches no file, just as one
\* whose probe request fails: the count is taken as unknown, so that each
\* process goes on or stops on a failed request.
InitOverlap ==
    /\ Init
    /\ manifest.exists
    /\ manifest.url # NullUrl
    /\ disk[LastSegment(manifest.url)].present
    /\ remoteCount.kind = "missing"

\* two processes on one directory, neither killed
SpecOverlap == InitOverlap /\ [][NextOverlap]_vars

(* ------------------------- vocabulary of the claims -------------------- *)
\* the manifest exists and its pointer names a file that is on disk
PointerValid(mf, dk) ==
    /\ mf.exists
    /\ mf.url # NullUrl
    /\ dk[LastSegment(mf.url)].present

\* the file name the pointer embeds carries the manifest's version
VersionMatches(mf) == LastSegment(mf.url).version = mf.version

\* the snapshot the manifest referenced when the run started, empty if none
PriorSnapshot ==
    IF PointerValid(startManifest, startDisk)
    THEN startDisk[LastSegment(startManifest.url)].data
    ELSE EmptyMap

StartFile == LastSegment(startManifest.url)
Range(s) == {s[i] : i \in 1..Len(s)}
Did(op) == \E i \in 1..Len(fsOps) : fsOps[i] = op
PresentFiles(dk) == {f \in DOMAIN dk : dk[f].present}
\* m2 holds every entry of m1 with the same value
Extends(m2, m1) == \A k \in DOMAIN m1 : k \in DOMAIN m2 /\ m2[k] = m1[k]
FailedIdx == {i \in 1..Len(missing) : outcome[i] = "fail"}
OkIdx == {i \in 1..Len(missing) : outcome[i] = "ok"}
\* the run has written its snapshot file and still holds its variables
HasPublished == pc \in {"manifest", "retire", "exited"} /\ Did("writeMap")
EndedPublishing == pc = "exited" /\ exit = 0 /\ Did("writeManifest")
\* the workers whose detail request is unanswered, the items that have been
\* answered
InFlight == {w \in Workers : wk[w].st = "fetching"}
Settled == {i \in 1..Len(missing) : outcome[i] # "none"}
Did2(op) == \E i \in 1..Len(fsOps2) : fsOps2[i] = op
\* the catalog answers as the API does: every entry has a name, no name
\* comes twice, and count is the number of entries
CatalogConsistent ==
    /\ NoName \notin Range(remoteList)
    /\ Cardinality(Range(remoteList)) = Len(remoteList)
    /\ remoteCount = [kind |-> "number", val |-> Len(remoteList)]
\* the manifest names a file that is not on disk
Dangling ==
    /\ manifest.exists
    /\ manifest.url # NullUrl
    /\ ~disk[LastSegment(manifest.url)].present

(* -------------------------------- C1 ----------------------------------- *)
\* C1: in a run that publishes, the snapshot file is written before the
\* manifest; at every point of a run, a kill between the two writes included,
\* a manifest whose pointer named an existing file when the run started names
\* a file that is on disk, and so does every manifest the run has written.
C1_ManifestNeverDangles ==
    runs > 0 =>
        /\ (PointerValid(startManifest, startDisk) \/ Did("writeManifest"))
              => PointerValid(manifest, disk)
        /\ \A i \in 1..Len(fsOps) :
              fsOps[i] = "writeManifest" => \E j \in 1..(i - 1) : fsOps[j] = "writeMap"

\* a kill between the two writes of a run that publishes under a new name
C1_Witness ==
    /\ pc = "crashed"
    /\ fsOps = <<"writeMap">>
    /\ PointerValid(startManifest, startDisk)
    /\ newFileName # oldFileName
    /\ manifest = startManifest

(* -------------------------------- C2 ----------------------------------- *)
\* C2 as stated: the snapshot file the manifest referenced at the start of
\* the run is never modified in place; it keeps its content until it is
\* deleted, and it is deleted only once the manifest points at another file
\* that exists.
C2_OldSnapshotNeverModified ==
    (runs > 0 /\ PointerValid(startManifest, startDisk)) =>
        \/ disk[StartFile] = startDisk[StartFile]
        \/ /\ ~disk[StartFile].present
           /\ PointerValid(manifest, disk)
           /\ LastSegment(manifest.url) # StartFile

\* C2 amended: the file is left as it was by a run that publishes under
\* another file name, until that run deletes it after it has repointed the
\* manifest; a run that publishes under the same file name (same calendar
\* date) overwrites it in place with the merged snapshot, which holds every
\* prior entry unchanged; the manifest is the old one until the new snapshot
\* is on disk.
C2_OldSnapshotSuperseded ==
    (runs > 0 /\ PointerValid(startManifest, startDisk)) =>
        /\ \/ disk[StartFile] = startDisk[StartFile]
           \/ /\ newFileName = StartFile
              /\ Did("writeMap")
              /\ disk[StartFile].present
              /\ Extends(disk[StartFile].data, startDisk[StartFile].data)
           \/ /\ newFileName # StartFile
              /\ ~disk[StartFile].present
              /\ Did("unlink")
              /\ PointerValid(manifest, disk)
              /\ LastSegment(manifest.url) = newFileName
        /\ \/ manifest = startManifest
           \/ Did("writeManifest") /\ PointerValid(manifest, disk)

\* a same-date run has overwritten the file its manifest pointed at
C2_Witness ==
    /\ runs > 0
    /\ PointerValid(startManifest, startDisk)
    /\ newFileName = StartFile
    /\ disk[StartFile] # startDisk[StartFile]
    /\ DOMAIN startDisk[StartFile].data # {}

C4_PartialFailurePublishing ==
    HasPublished =>
        LET pub == disk[newFileName].data
            newKeys == (DOMAIN pub) \ (DOMAIN PriorSnapshot)
        IN /\ Extends(pub, PriorSnapshot)
           /\ Cardinality(newKeys) = Len(missing) - Cardinality(FailedIdx)
           /\ \A i \in FailedIdx : missing[i] \notin DOMAIN pub
           /\ \A k \in newKeys : \E i \in OkIdx : missing[i] = k

(* -------------------------------- C5 ----------------------------------- *)
\* C5: once the listing has been answered, missing holds exactly the names
\* of the listing that are not keys of the prior snapshot, in the order of
\* the listing, whatever the probe returned.
C5_DiffIsListingMinusKnown ==
    (runs > 0 /\ nList = 1 /\ fatalCause = "none"
        /\ pc \in {"pool", "manifest", "retire", "exited"}) =>
        /\ knownKeys = DOMAIN PriorSnapshot
        /\ Range(missing) = (Range(remoteList) \ {NoName}) \ DOMAIN PriorSnapshot
        /\ missing = SelectSeq(remoteList, LAMBDA x : x \in Range(missing))

\* a diff that dropped a known name from a listing that also has a new one
C5_Witness ==
    /\ pc = "pool"
    /\ Len(missing) = 1
    /\ Len(remoteList) = 2
    /\ knownKeys # {}
    /\ Range(remoteList) \cap knownKeys # {}

(* -------------------------------- C6 ----------------------------------- *)
\* C6: a run that starts without a prior snapshot (pointer null, pointer to
\* a missing file, or an empty snapshot) is never stopped before the listing
\* request by anything but an HTTP error of the probe, for every script.
C6_BootstrapReachesListing ==
    (runs > 0 /\ startManifest.exists /\ DOMAIN PriorSnapshot = {} /\ pc = "exited") =>
        nList = 1 \/ fatalCause = "probe"

(* -------------------------------- C7 ----------------------------------- *)
\* C7 as stated: at the end of a publishing run that found a previous file,
\* that file is gone iff its name differs from the new name, and a same-date
\* run leaves exactly one snapshot file on disk.
C7_RetiredIffNameDiffers ==
    (EndedPublishing /\ PointerValid(startManifest, startDisk)) =>
        /\ ~disk[oldFileName].present <=> oldFileName # newFileName
        /\ oldFileName = newFileName => Cardinality(PresentFiles(disk)) = 1

\* C7 amended: the previous file is gone iff its name differs from the new
\* name and the unlink did not fail; a same-date run deletes nothing,
\* overwrites the file and leaves the set of snapshot files as it was.
C7_RetiredUnlessUnlinkFails ==
    (EndedPublishing /\ PointerValid(startManifest, startDisk)) =>
        /\ oldFileName = StartFile
        /\ oldFileName # newFileName =>
              /\ fsOps \in {<<"writeMap", "writeManifest", "unlink">>,
                            <<"writeMap", "writeManifest", "unlinkFailed">>}
              /\ ~disk[oldFileName].present <=> Did("unlink")
              /\ disk[oldFileName].present => disk[oldFileName] = startDisk[oldFileName]
        /\ oldFileName = newFileName =>
              /\ fsOps = <<"writeMap", "writeManifest">>
              /\ disk[oldFileName] = FileWith(map)
              /\ PresentFiles(disk) = PresentFiles(startDisk)
        /\ PresentFiles(disk) \subseteq PresentFiles(startDisk) \cup {newFileName}
        /\ disk[newFileName] = FileWith(map)

\* a run on a later date has deleted the file it superseded
C7_Witness ==
    /\ EndedPublishing
    /\ PointerValid(startManifest, startDisk)
    /\ oldFileName # newFileName
    /\ ~disk[oldFileName].present
    /\ PresentFiles(disk) = {newFileName}

(* -------------------------------- C8 ----------------------------------- *)
\* C8 as stated: after every run that ends with status 0 the pointer names
\* a file on disk whose name embeds the manifest's version.
C8_ManifestValidAfterSuccess ==
    (pc = "exited" /\ exit = 0) =>
        PointerValid(manifest, disk) /\ VersionMatches(manifest)

\* C8 amended: that holds after every run that published; a no-op run leaves
\* manifest and files as they were, so it holds after a no-op exactly when it
\* held at the start of the run (not after a bootstrap run whose listing
\* has no name to add: the pointer stays null or dangling).
C8_ManifestValidAfterPublish ==
    (pc = "exited" /\ exit = 0) =>
        IF Did("writeManifest")
        THEN /\ PointerValid(manifest, disk)
             /\ VersionMatches(manifest)
             /\ LastSegment(manifest.url) = newFileName
             /\ manifest.version = version
        ELSE /\ fsOps = <<>>
             /\ manifest = startManifest
             /\ disk = startDisk

\* a bootstrap run that published: the pointer was null and is now valid
C8_Witness ==
    /\ EndedPublishing
    /\ startManifest.url = NullUrl
    /\ PointerValid(manifest, disk)
    /\ manifest.version = version

(* -------------------------------- C9 ----------------------------------- *)
\* C9: when the snapshot is not empty and the probe returned a number that
\* is at most the number of known keys, the run has returned with status 0
\* having issued the probe request only and having touched no file.
C9_ProbeShortCircuit ==
    (runs > 0 /\ knownKeys # {} /\ apiCount.known
        /\ apiCount.val <= Cardinality(knownKeys)) =>
        /\ pc = "exited"
        /\ exit = 0
        /\ nProbe = 1
        /\ nList = 0
        /\ nDetail = 0
        /\ fsOps = <<>>
        /\ manifest = startManifest
        /\ disk = startDisk

\* the count equals the number of known keys
C9_Witness ==
    /\ pc = "exited"
    /\ Cardinality(knownKeys) = 2
    /\ apiCount = [known |-> TRUE, val |-> 2]
    /\ nProbe = 1
    /\ nList = 0

(* -------------------------------- C10 ---------------------------------- *)
\* C10: a run that meets a fatal failure (no manifest file, an HTTP error of
\* the probe or of the listing) exits with a non-zero status having written
\* and deleted nothing; a run that returns from main exits with status 0.
C10_FatalLeavesStateUntouched ==
    (runs > 0 /\ pc = "exited") =>
        /\ ~startManifest.exists => fatalCause = "manifest"
        /\ fatalCause # "none" =>
              /\ exit # 0
              /\ fsOps = <<>>
              /\ manifest = startManifest
              /\ disk = startDisk
        /\ fatalCause = "none" => exit = 0

\* the listing request failed after a probe that let the run proceed
C10_Witness ==
    /\ pc = "exited"
    /\ exit = 1
    /\ fatalCause = "list"
    /\ PointerValid(manifest, disk)

(* -------------------------------- C11 ---------------------------------- *)
\* C11: for every list of missing names and every pool size, each item is
\* attempted exactly once: two workers never hold the same item, an item that
\* has been answered is not requested again, and when the pool has completed
\* every item has been requested, one request each.
C11_EveryItemAttemptedOnce ==
    /\ pc = "pool" =>
          /\ \A w1, w2 \in InFlight : w1 # w2 => wk[w1].idx # wk[w2].idx
          /\ \A w \in InFlight : wk[w].idx \notin Settled
          /\ nDetail = Cardinality(Settled) + Cardinality(InFlight)
    /\ HasPublished =>
          /\ nDetail = Len(missing)
          /\ Settled = 1..Len(missing)

(* -------------------------------- C12 ---------------------------------- *)
\* C12: while the pool runs, the number of detail requests in flight (issued
\* and not yet answered) is at most min(pool size, number of missing names).
C12_InFlightAtMostWidth ==
    pc = "pool" =>
        /\ Cardinality(InFlight) <= Min(poolSize, Len(missing))
        /\ Cardinality(InFlight) = nDetail - Cardinality(Settled)

\* as many requests in flight as the pool is wide, with items still to take
C12_Witness ==
    /\ pc = "pool"
    /\ poolSize = 1
    /\ Len(missing) = 2
    /\ Cardinality(InFlight) = 1
    /\ p = 1

(* -------------------------------- C13 ---------------------------------- *)
\* C13: when every request is answered and the process is not killed, a pool
\* that has started completes with every scheduled item attempted, whatever
\* fetches fail, and the run goes on to write the snapshot.
C13_PoolRunsToCompletion ==
    (pc = "pool") ~> (pc = "manifest" /\ Settled = 1..Len(missing))

(* -------------------------------- C14 ---------------------------------- *)
\* C14: in the run that follows a run in which the fetch of a key failed,
\* the key is not in the snapshot the run starts from, it is not among
\* knownKeys, and, if it is still in the remote listing, a run that returns
\* from main has scheduled a fetch for it.
C14_FailedKeyRefetchedNextRun ==
    \A k \in prevFailed :
        /\ k \notin DOMAIN PriorSnapshot
        /\ pc \notin {"exited", "crashed"} => k \notin knownKeys
        /\ (pc = "exited" /\ fatalCause = "none" /\ k \in Range(remoteList)) =>
              k \in Range(missing)

(* -------------------------------- C15 ---------------------------------- *)
\* C15: when the probe was answered with a count field that is missing or
\* not a finite number, apiCount is unknown (never a number, so never zero)
\* and the run has issued the listing request, also when the snapshot it
\* loaded is not empty.
C15_UnknownProbeProceeds ==
    (nProbe = 1 /\ pc # "probe" /\ fatalCause # "probe"
        /\ remoteCount.kind # "number") =>
        /\ apiCount = UnknownCount
        /\ nList = 1

\* a count that is not finite, with a snapshot that has keys
C15_Witness ==
    /\ pc = "list"
    /\ knownKeys # {}
    /\ remoteCount.kind = "nonfinite"
    /\ nList = 1

(* -------------------------------- C16 ---------------------------------- *)
\* C16 as stated: a run whose diff found a missing name and that returned
\* from main has written the new snapshot file and repointed the manifest
\* to it with the new version, whatever number of fetches failed, and the
\* file the manifest pointed at before is gone.
C16_AlwaysPublishesAndRetires ==
    (pc = "exited" /\ fatalCause = "none" /\ Len(missing) > 0) =>
        /\ Did("writeMap") /\ Did("writeManifest")
        /\ PointerValid(manifest, disk)
        /\ manifest.url = UrlOf(rt, newFileName)
        /\ manifest.version = version
        /\ PointerValid(startManifest, startDisk) => ~disk[StartFile].present

\* C16 amended: such a run has written the new snapshot file (the loaded
\* entries plus every fetched one) and then the manifest, which points at
\* it with the new version; the file the manifest pointed at before is gone
\* exactly when its name differs from the new name and the unlink did not
\* fail, and on the same date it is the file that was overwritten.
C16_AlwaysPublishes ==
    (pc = "exited" /\ fatalCause = "none" /\ Len(missing) > 0) =>
        /\ exit = 0
        /\ SubSeq(fsOps, 1, 2) = <<"writeMap", "writeManifest">>
        /\ disk[newFileName] = FileWith(map)
        /\ Extends(map, PriorSnapshot)
        /\ \A i \in OkIdx : missing[i] \in DOMAIN map
        /\ manifest = [startManifest EXCEPT !.version = version,
                                            !.url = UrlOf(rt, newFileName)]
        /\ newFileName = FileNameOf(rt, version)
        /\ PointerValid(startManifest, startDisk) =>
              (~disk[StartFile].present <=> (StartFile # newFileName /\ Did("unlink")))

\* every scheduled fetch failed and the run published all the same
C16_Witness ==
    /\ pc = "exited"
    /\ Len(missing) = 2
    /\ FailedIdx = {1, 2}
    /\ Did("unlink")
    /\ PointerValid(manifest, disk)
    /\ LastSegment(manifest.url) = newFileName

(* -------------------------------- C17 ---------------------------------- *)
\* C17: when the listing has been answered and every name in it is a known
\* key, the run has returned with status 0 without a detail request and
\* without a file operation: manifest and files are as at its start.
C17_EmptyDiffIsNoOp ==
    (pc \in {"pool", "manifest", "retire", "exited"} /\ nList = 1
        /\ fatalCause = "none"
        /\ (Range(remoteList) \ {NoName}) \subseteq knownKeys) =>
        /\ pc = "exited"
        /\ exit = 0
        /\ Len(missing) = 0
        /\ nDetail = 0
        /\ fsOps = <<>>
        /\ manifest = startManifest
        /\ disk = startDisk

\* the probe let the run proceed and the listing holds known names only
C17_Witness ==
    /\ pc = "exited"
    /\ nList = 1
    /\ fatalCause = "none"
    /\ knownKeys # {}
    /\ Range(remoteList) \cap knownKeys # {}
    /\ Range(remoteList) \subseteq knownKeys \cup {NoName}
    /\ fsOps = <<>>

(* -------------------------------- C18 ---------------------------------- *)
\* C18: for every listing, one that repeats a name included, the names
\* scheduled for fetch are pairwise different and none is a known key, so
\* no request in flight is for a key that is already in the working map and
\* a successful merge overwrites nothing.
C18_ScheduledKeysNewAndOnce ==
    pc \in {"pool", "manifest", "retire", "exited"} =>
        /\ \A i, j \in 1..Len(missing) : i # j => missing[i] # missing[j]
        /\ Range(missing) \cap knownKeys = {}
        /\ pc = "pool" => \A w \in InFlight : missing[wk[w].idx] \notin DOMAIN map

(* -------------------------------- C19 ---------------------------------- *)
\* C19: a run whose unlink of the superseded file failed has returned from
\* main with status 0; the new snapshot file is on disk with the merged map,
\* the manifest points at it, and the superseded file is as it was.
C19_UnlinkFailureNotFatal ==
    Did("unlinkFailed") =>
        /\ pc = "exited"
        /\ exit = 0
        /\ fatalCause = "none"
        /\ disk[newFileName] = FileWith(map)
        /\ PointerValid(manifest, disk)
        /\ LastSegment(manifest.url) = newFileName
        /\ manifest.version = version
        /\ oldFileName # newFileName
        /\ disk[oldFileName] = startDisk[oldFileName]

\* the superseded file is still on disk after the run
C19_Witness ==
    /\ Did("unlinkFailed")
    /\ pc = "exited"
    /\ disk[oldFileName].present
    /\ Cardinality(PresentFiles(disk)) = 2
    /\ added > 0

(* -------------------------------- C20 ---------------------------------- *)
\* C20: when the pool has completed, under every interleaving of the
\* workers, added + failed is the number of scheduled items, added is the
\* number of keys the run added to the map, and every key whose fetch
\* succeeded is in the map.
C20_CountersLoseNothing ==
    HasPublished =>
        /\ added + failed = Len(missing)
        /\ added = Cardinality((DOMAIN map) \ knownKeys)
        /\ \A i \in OkIdx : missing[i] \in DOMAIN map

(* -------------------------------- C21 ---------------------------------- *)
\* C21: two processes that run the script on one directory with a valid
\* manifest can leave the manifest naming a deleted file, and whenever the
\* manifest names a file that is not on disk it is by this race: both
\* loaded the same previous file, one has re-published under that file's
\* name and written the manifest last, the other has published under a
\* later date and deleted the previous file.
C21_DanglesOnlyByRace ==
    Dangling =>
        \/ /\ manifest.url = UrlOf(rt, newFileName)
           /\ Did("writeManifest") /\ Did2("writeManifest")
           /\ newFileName = oldFileName
           /\ oldFileName2 = oldFileName
           /\ newFileName2.version > newFileName.version
           /\ Did2("unlink")
        \/ /\ manifest.url = UrlOf(rt, newFileName2)
           /\ Did("writeManifest") /\ Did2("writeManifest")
           /\ newFileName2 = oldFileName2
           /\ oldFileName = oldFileName2
           /\ newFileName.version > newFileName2.version
           /\ Did("unlink")

\* both processes have returned and the manifest names the file that the
\* later-dated process deleted
C21_Witness ==
    /\ pc = "exited" /\ exit = 0
    /\ pc2 = "exited"
    /\ Dangling
    /\ PointerValid(startManifest, startDisk)
    /\ newFileName = oldFileName
    /\ manifest.url = UrlOf(rt, newFileName)
    /\ newFileName2.version > newFileName.version
    /\ Did2("unlink")

(* -------------------------------- C22 ---------------------------------- *)
\* C22: with the catalog fixed, repeated runs converge from every initial
\* snapshot. A run that returns having done nothing leaves the directory as
\* it found it, so every later run does the same; convergence therefore
\* needs that a second run in succession returns as a no-op only when the
\* snapshot holds every name of the listing, also when the snapshot holds
\* keys that the listing no longer has.
C22_NoOpOnlyWhenConverged ==
    (runs = 2 /\ pc = "exited" /\ exit = 0 /\ fsOps = <<>> /\ CatalogConsistent) =>
        /\ manifest = startManifest /\ disk = startDisk
        /\ Range(remoteList) \subseteq DOMAIN PriorSnapshot

====
